---- MODULE Spec2Model ----
(***************************************************************************)
(* A model of rscap: the recording attempt start_recording (src/main.rs)   *)
(* and the form/button that launches it (src/gui.rs, main).                *)
(*                                                                         *)
(* Spec     one run of start_recording, statement by statement, against a  *)
(*          nondeterministic portal, codec library and sink.               *)
(* SpecGui  the form, the 'Start Recording' handler and the worker threads *)
(*          main spawns, one per button press.                             *)
(***************************************************************************)
EXTENDS Integers, Sequences, FiniteSets, TLC

\* ---------------------------------------------------------------- bounds
MaxPackets == 2    \* packets the capture input delivers before it is exhausted
MaxStreams == 2    \* entries in the portal's Start response
MaxPresses == 2    \* presses of the 'Start Recording' button

\* ------------------------------------------------------------ input sets
Containers == {"mp4", "mkv"}
Modes      == {"CBR", "VBR"}
Templates  == {"demo"}
Buckets    == {"rec"}

\* Machine integers wider than the checker's own are kept as sequences of
\* 16-bit limbs, most significant first: a u32 has two limbs, an i64 four
\* (two's complement, the sign is the top bit of the first limb).
LimbBase == 65536

U32(hi, lo) == <<hi, lo>>

\* kbps values of RecordParams.bitrate (u32): 2000 and u32::MAX.
Bitrates   == {U32(0, 2000), U32(65535, 65535)}
AudioDevs  == {"default", "Device 1"}

\* A time base is a rational <<num, den>>.
TimeBases  == {<<1, 1>>, <<1, 3>>}

\* The portal's streams: stream i carries descriptor PortalFd(i).
PortalFd(i) == 10 + i
NodeId(i) == 40 + i

VARIABLES
  params,        \* RecordParams handed to start_recording
  pc,            \* position in start_recording
  result,        \* "none" while running, then "Ok" or "Err"
  failedAt,      \* the step whose error was returned ("" if none)
  rpcLog,        \* portal methods called, in call order
  rpcInFlight,   \* portal methods called and not yet answered
  streams,       \* start_response.streams
  raw_fd,        \* stream_info.fd.as_raw_fd(), -1 before it is read
  dup_fd,        \* result of libc::dup, -1 before / on failure
  openFds,       \* descriptors created by this run that are still open
  input_index,   \* index of the selected input video stream
  opened,        \* codec/format contexts opened, in acquisition order
  released,      \* codec/format contexts released, in release order
  uploader,      \* the sink (OciUploader) shared with the muxer's IO
  muxBuf,        \* TRUE when the muxer's IO holds bytes not yet pushed to the sink
  muxLog,        \* what was written to the muxer: header, packets, trailer
  dec,           \* decoder: time base, frames held, eof flag, counters
  enc,           \* encoder: bit rate, frames held (their pts), eof flag
  inp,           \* demuxer: packets read, stream index of the current packet
  ostream,       \* output stream: index and time base
  cur,           \* the frame in hand, the error that ended the latest drain loop
  form,          \* the widgets of the GTK form
  threads        \* worker threads spawned by main's callback

pipeVars == <<params, pc, result, failedAt, rpcLog, rpcInFlight, streams, raw_fd,
              dup_fd, openFds, input_index, opened, released, uploader, muxBuf,
              muxLog, dec, enc, inp, ostream, cur>>
guiVars  == <<form, threads>>
vars     == <<pipeVars, guiVars>>

\* ------------------------------------------------------------- helpers
RECURSIVE Reverse(_)
Reverse(s) == IF s = <<>> THEN <<>> ELSE Reverse(Tail(s)) \o <<Head(s)>>

NoSink == [constructed |-> FALSE, bucket |-> "", object |-> "",
           writes |-> 0, finalizeCalls |-> 0, finalized |-> FALSE,
           lateWrites |-> 0]

\* ------------------------------------------------- the sink (OciUploader)
\* src/main.rs uses oci_uploader::OciUploader through new, the Write impl
\* the muxer's IO calls, and finalize_upload; the module itself is not part
\* of the sources, so these three follow the sink contract of the design.
OciUploaderNew(bucket, object) ==
  [NoSink EXCEPT !.constructed = TRUE, !.bucket = bucket, !.object = object]

SinkWrite(u) ==
  [u EXCEPT !.writes = @ + 1,
            !.lateWrites = IF u.finalizeCalls > 0 THEN @ + 1 ELSE @]

SinkFinalize(u, ok) ==
  [u EXCEPT !.finalizeCalls = @ + 1, !.finalized = ok]

\* ------------------------------------------------------ leaving the function
\* Contexts torn down in the order they were acquired.
DropOrder_Fifo(acquired) == acquired

\* The locals that own a context are dropped in reverse order of declaration
\* (ostream/encoder with octx, then decoder, then ictx).
DropOrder(acquired) == Reverse(acquired)

\* dup_fd is a plain integer (libc::dup): nothing closes it when it goes out
\* of scope.
FdsAfterReturn(fds) == fds

\* Dropping octx releases the muxer's IO, which pushes what it still holds
\* to the sink.
SinkAfterDrop(u, buffered) == IF buffered THEN SinkWrite(u) ELSE u

Return(res, stage, u) ==
  /\ pc' = "done"
  /\ result' = res
  /\ failedAt' = stage
  /\ released' = DropOrder(opened)
  /\ uploader' = SinkAfterDrop(u, muxBuf)
  /\ muxBuf' = FALSE
  /\ openFds' = FdsAfterReturn(openFds)
  /\ rpcInFlight' = {}

\* An error propagated by `?` or `return Err(..)`.
Fail(stage) ==
  /\ Return("Err", stage, uploader)
  /\ UNCHANGED <<params, rpcLog, streams, raw_fd, dup_fd, input_index, opened,
                 muxLog, dec, enc, inp, ostream, cur>>

\* The statement succeeded and control moves on.
Goto(next) ==
  /\ pc' = next
  /\ UNCHANGED <<result, failedAt>>

\* ---------------------------------------------------------- negotiation
\* A slip in the format! arguments: container first.
ObjectName_Swapped(p) == p.container \o "." \o p.filename_template

ObjectName(p) == p.filename_template \o "." \o p.container
Bucket(p) == p.output_folder

PipewireInit ==
  /\ pc = "PipewireInit"
  /\ \/ /\ Goto("Connect")
        /\ UNCHANGED <<params, rpcLog, rpcInFlight, streams, raw_fd, dup_fd, openFds,
                       input_index, opened, released, uploader, muxBuf, muxLog,
                       dec, enc, inp, ostream, cur>>
     \/ Fail("PipewireInit")
  /\ UNCHANGED guiVars

Connect ==
  /\ pc = "Connect"
  /\ \/ /\ Goto("CreateSession")
        /\ UNCHANGED <<params, rpcLog, rpcInFlight, streams, raw_fd, dup_fd, openFds,
                       input_index, opened, released, uploader, muxBuf, muxLog,
                       dec, enc, inp, ostream, cur>>
     \/ Fail("Connect")
  /\ UNCHANGED guiVars

\* proxy.call(method, ..): the request goes out ...
RpcCall(method, await) ==
  /\ rpcLog' = Append(rpcLog, method)
  /\ rpcInFlight' = rpcInFlight \cup {method}
  /\ Goto(await)
  /\ UNCHANGED <<params, streams, raw_fd, dup_fd, openFds, input_index, opened,
                 released, uploader, muxBuf, muxLog, dec, enc, inp, ostream, cur>>
  /\ UNCHANGED guiVars

\* ... and .await? resumes with the reply, or returns its error.
RpcReply(method, next) ==
  /\ method \in rpcInFlight
  /\ \/ /\ Goto(next)
        /\ rpcInFlight' = rpcInFlight \ {method}
        /\ UNCHANGED <<params, rpcLog, streams, raw_fd, dup_fd, openFds, input_index,
                       opened, released, uploader, muxBuf, muxLog, dec, enc, inp,
                       ostream, cur>>
     \/ Fail(method)
  /\ UNCHANGED guiVars

CreateSessionCall ==
  /\ pc = "CreateSession"
  /\ RpcCall("CreateSession", "CreateSessionAwait")

CreateSessionReply ==
  /\ pc = "CreateSessionAwait"
  /\ RpcReply("CreateSession", "SelectSources")

\* SelectSources sent without awaiting its reply.
SelectSourcesCall_NoAwait ==
  /\ pc = "SelectSources"
  /\ RpcCall("SelectSources", "Start")

SelectSourcesCall ==
  /\ pc = "SelectSources"
  /\ RpcCall("SelectSources", "SelectSourcesAwait")

SelectSourcesReply ==
  /\ pc = "SelectSourcesAwait"
  /\ RpcReply("SelectSources", "Start")

StartCall ==
  /\ pc = "Start"
  /\ RpcCall("Start", "StartAwait")

\* The Start reply deserialises into StartResponse { streams }.
StartReply ==
  /\ pc = "StartAwait"
  /\ "Start" \in rpcInFlight
  /\ \/ /\ \E n \in 0..MaxStreams :
             streams' = [i \in 1..n |-> [fd |-> PortalFd(i), node_id |-> NodeId(i)]]
        /\ Goto("SelectStream")
        /\ rpcInFlight' = rpcInFlight \ {"Start"}
        /\ UNCHANGED <<params, rpcLog, raw_fd, dup_fd, openFds, input_index, opened,
                       released, uploader, muxBuf, muxLog, dec, enc, inp, ostream, cur>>
     \/ Fail("Start")
  /\ UNCHANGED guiVars

\* The last entry of the list taken instead of the first.
FirstStream_Last(ss) == ss[Len(ss)]

\* start_response.streams.get(0).ok_or_else(..)?  then  fd.as_raw_fd()
FirstStream(ss) == ss[1]

\* streams[0] taken without looking at the length of the list.
SelectStream_Unchecked ==
  /\ pc = "SelectStream"
  /\ raw_fd' = IF Len(streams) = 0 THEN 0 ELSE FirstStream(streams).fd
  /\ Goto("Dup")
  /\ UNCHANGED <<params, rpcLog, rpcInFlight, streams, dup_fd, openFds,
                 input_index, opened, released, uploader, muxBuf, muxLog,
                 dec, enc, inp, ostream, cur>>
  /\ UNCHANGED guiVars

SelectStream ==
  /\ pc = "SelectStream"
  /\ IF Len(streams) = 0
       THEN Fail("NoStream")
       ELSE /\ raw_fd' = FirstStream(streams).fd
            /\ Goto("Dup")
            /\ UNCHANGED <<params, rpcLog, rpcInFlight, streams, dup_fd, openFds,
                           input_index, opened, released, uploader, muxBuf, muxLog,
                           dec, enc, inp, ostream, cur>>
  /\ UNCHANGED guiVars

\* libc::dup(raw_fd): a fresh descriptor, or -1.
DupBase == 20

\* The result of dup used without the `if dup_fd < 0` check.
DupFd_Unchecked ==
  /\ pc = "Dup"
  /\ \E r \in {-1, DupBase} :
       /\ dup_fd' = r
       /\ openFds' = IF r < 0 THEN openFds ELSE openFds \cup {r}
       /\ Goto("FfmpegInit")
       /\ UNCHANGED <<params, rpcLog, rpcInFlight, streams, raw_fd,
                      input_index, opened, released, uploader, muxBuf,
                      muxLog, dec, enc, inp, ostream, cur>>
  /\ UNCHANGED guiVars

DupFd ==
  /\ pc = "Dup"
  /\ \E r \in {-1, DupBase} :
       /\ dup_fd' = r
       /\ IF r < 0
            THEN /\ Return("Err", "Dup", uploader)
                 /\ UNCHANGED <<params, rpcLog, streams, raw_fd, input_index, opened,
                                muxLog, dec, enc, inp, ostream, cur>>
            ELSE /\ openFds' = openFds \cup {r}
                 /\ Goto("FfmpegInit")
                 /\ UNCHANGED <<params, rpcLog, rpcInFlight, streams, raw_fd,
                                input_index, opened, released, uploader, muxBuf,
                                muxLog, dec, enc, inp, ostream, cur>>
  /\ UNCHANGED guiVars

\* ------------------------------------------------------- pipeline set-up
StreamIdx == {0, 1}     \* stream indices of the capture input

NoPkt == [kind |-> "none", pts |-> 0, ts |-> 0, tb |-> <<0, 1>>, stream |-> -1,
          rescaled |-> FALSE, phase |-> ""]

\* A statement that touches nothing but control.
Plain(next, stage) ==
  /\ \/ /\ Goto(next)
        /\ UNCHANGED <<params, rpcLog, rpcInFlight, streams, raw_fd, dup_fd, openFds,
                       input_index, opened, released, uploader, muxBuf, muxLog,
                       dec, enc, inp, ostream, cur>>
     \/ Fail(stage)
  /\ UNCHANGED guiVars

\* ffmpeg::init()
FfmpegInit ==
  /\ pc = "FfmpegInit"
  /\ Plain("OpenInput", "FfmpegInit")

\* ffmpeg::format::input_with_format("/proc/self/fd/<dup_fd>", "pipewire")
OpenInput ==
  /\ pc = "OpenInput"
  /\ \/ /\ opened' = Append(opened, "ictx")
        /\ Goto("BestStream")
        /\ UNCHANGED <<params, rpcLog, rpcInFlight, streams, raw_fd, dup_fd, openFds,
                       input_index, released, uploader, muxBuf, muxLog,
                       dec, enc, inp, ostream, cur>>
     \/ Fail("OpenInput")
  /\ UNCHANGED guiVars

\* ictx.streams().best(Video).ok_or_else(..)?.index()
BestStream ==
  /\ pc = "BestStream"
  /\ \/ /\ \E i \in StreamIdx : input_index' = i
        /\ Goto("OpenDecoder")
        /\ UNCHANGED <<params, rpcLog, rpcInFlight, streams, raw_fd, dup_fd, openFds,
                       opened, released, uploader, muxBuf, muxLog,
                       dec, enc, inp, ostream, cur>>
     \/ Fail("BestStream")
  /\ UNCHANGED guiVars

\* input_video_stream.codec().decoder().video()
OpenDecoder ==
  /\ pc = "OpenDecoder"
  /\ \/ /\ opened' = Append(opened, "decoder")
        /\ \E tb \in TimeBases : dec' = [dec EXCEPT !.time_base = tb]
        /\ Goto("NewUploader")
        /\ UNCHANGED <<params, rpcLog, rpcInFlight, streams, raw_fd, dup_fd, openFds,
                       input_index, released, uploader, muxBuf, muxLog,
                       enc, inp, ostream, cur>>
     \/ Fail("OpenDecoder")
  /\ UNCHANGED guiVars

\* Arc::new(Mutex::new(OciUploader::new(&bucket, &object_name)))
NewUploader ==
  /\ pc = "NewUploader"
  /\ uploader' = OciUploaderNew(Bucket(params), ObjectName(params))
  /\ Goto("IoFromWrite")
  /\ UNCHANGED <<params, rpcLog, rpcInFlight, streams, raw_fd, dup_fd, openFds,
                 input_index, opened, released, muxBuf, muxLog, dec, enc, inp,
                 ostream, cur>>
  /\ UNCHANGED guiVars

\* IO::from_write(uploader.clone())
IoFromWrite ==
  /\ pc = "IoFromWrite"
  /\ Plain("OutputWithIo", "IoFromWrite")

\* ffmpeg::format::output_with_io(io)
OutputWithIo ==
  /\ pc = "OutputWithIo"
  /\ \/ /\ opened' = Append(opened, "octx")
        /\ Goto("FindEncoder")
        /\ UNCHANGED <<params, rpcLog, rpcInFlight, streams, raw_fd, dup_fd, openFds,
                       input_index, released, uploader, muxBuf, muxLog,
                       dec, enc, inp, ostream, cur>>
     \/ Fail("OutputWithIo")
  /\ UNCHANGED guiVars

\* octx.format().flags(), ffmpeg::encoder::find(H264).ok_or_else(..)?
FindEncoder ==
  /\ pc = "FindEncoder"
  /\ Plain("AddStream", "FindEncoder")

\* octx.add_stream(codec)
AddStream ==
  /\ pc = "AddStream"
  /\ Plain("ConfigureEncoder", "AddStream")

\* `x as i64` of a u32: zero extension.
AsI64(x) == <<0, 0, x[1], x[2]>>

\* `x * k` on i64 limbs for a small k, wrapping at 64 bits.
MulI64(x, k) ==
  LET p0 == x[4] * k
      p1 == x[3] * k + (p0 \div LimbBase)
      p2 == x[2] * k + (p1 \div LimbBase)
      p3 == x[1] * k + (p2 \div LimbBase)
  IN  <<p3 % LimbBase, p2 % LimbBase, p1 % LimbBase, p0 % LimbBase>>

\* `x * k` on u32 limbs, wrapping at 32 bits.
MulU32(x, k) ==
  LET p0 == x[2] * k
      p1 == x[1] * k + (p0 \div LimbBase)
  IN  <<p1 % LimbBase, p0 % LimbBase>>

\* The product taken in u32 and widened afterwards.
BitRate_Narrow(kbps) == AsI64(MulU32(kbps, 1000))

\* encoder.set_bit_rate(params.bitrate as i64 * 1000)
BitRate(kbps) == MulI64(AsI64(kbps), 1000)

\* ostream.codec().encoder().video()?, then the setters
ConfigureEncoder ==
  /\ pc = "ConfigureEncoder"
  /\ \/ /\ enc' = [enc EXCEPT !.time_base = dec.time_base,
                              !.bit_rate = BitRate(params.bitrate)]
        /\ Goto("OpenEncoder")
        /\ UNCHANGED <<params, rpcLog, rpcInFlight, streams, raw_fd, dup_fd, openFds,
                       input_index, opened, released, uploader, muxBuf, muxLog,
                       dec, inp, ostream, cur>>
     \/ Fail("GetEncoder")
  /\ UNCHANGED guiVars

\* encoder.open_as(codec)
OpenEncoder ==
  /\ pc = "OpenEncoder"
  /\ \/ /\ opened' = Append(opened, "encoder")
        /\ Goto("WriteHeader")
        /\ UNCHANGED <<params, rpcLog, rpcInFlight, streams, raw_fd, dup_fd, openFds,
                       input_index, released, uploader, muxBuf, muxLog,
                       dec, enc, inp, ostream, cur>>
     \/ Fail("OpenEncoder")
  /\ UNCHANGED guiVars

\* What a write to the muxer leaves behind: its bytes (and those held before)
\* were pushed to the sink, or they wait in the IO buffer.
MuxOut(u, buffered) == {<<SinkWrite(u), FALSE>>, <<u, TRUE>>}

MuxWrite(entry) ==
  /\ muxLog' = Append(muxLog, entry)
  /\ \E o \in MuxOut(uploader, muxBuf) : uploader' = o[1] /\ muxBuf' = o[2]

\* The header's error dropped instead of propagated.
WriteHeader_ErrorIgnored ==
  /\ pc = "WriteHeader"
  /\ \/ MuxWrite([NoPkt EXCEPT !.kind = "header"])
     \/ UNCHANGED <<uploader, muxBuf, muxLog>>
  /\ \E tb \in TimeBases : ostream' = [ostream EXCEPT !.time_base = tb]
  /\ Goto("NextPacket")
  /\ UNCHANGED <<params, rpcLog, rpcInFlight, streams, raw_fd, dup_fd, openFds,
                 input_index, opened, released, dec, enc, inp, cur>>
  /\ UNCHANGED guiVars

\* octx.write_header(): the muxer fixes the output stream's time base.
WriteHeader ==
  /\ pc = "WriteHeader"
  /\ \/ /\ MuxWrite([NoPkt EXCEPT !.kind = "header"])
        /\ \E tb \in TimeBases : ostream' = [ostream EXCEPT !.time_base = tb]
        /\ Goto("NextPacket")
        /\ UNCHANGED <<params, rpcLog, rpcInFlight, streams, raw_fd, dup_fd, openFds,
                       input_index, opened, released, dec, enc, inp, cur>>
     \/ Fail("WriteHeader")
  /\ UNCHANGED guiVars

\* ------------------------------------------------------------- streaming
\* av_rescale_q with rounding to nearest: a * (src / dst).
RescaleQ(a, src, dst) ==
  LET b == src[1] * dst[2]
      c == src[2] * dst[1]
  IN  (a * b + (c \div 2)) \div c

\* encoded.rescale_ts(src, dst)
RescaleTs(pkt, src, dst) ==
  [pkt EXCEPT !.ts = RescaleQ(pkt.ts, src, dst), !.tb = dst, !.rescaled = TRUE]

\* encoded.set_stream(index)
SetStream(pkt, index) == [pkt EXCEPT !.stream = index]

\* The packet the encoder hands out for the frame with presentation number
\* pts: its timestamp counts units of the encoder's time base.
EncodedPacket(pts) ==
  [NoPkt EXCEPT !.kind = "packet", !.pts = pts, !.ts = pts, !.tb = enc.time_base]

\* The steps between receive_packet and write_packet in the frame loop ...
SteadyPacket(pkt) ==
  [RescaleTs(SetStream(pkt, ostream.index), dec.time_base, ostream.time_base)
     EXCEPT !.phase = "Streaming"]

\* ... and in the end-of-stream loop.
FinalPacket(pkt) ==
  [SetStream(pkt, ostream.index) EXCEPT !.phase = "Draining"]

\* for (stream, packet) in ictx.packets() { if stream.index() == input_index
\* The loop body without `if stream.index() == input_index`.
NextPacket_NoFilter ==
  /\ pc = "NextPacket"
  /\ \/ /\ inp.read < MaxPackets
        /\ \E i \in StreamIdx :
             /\ inp' = [inp EXCEPT !.read = @ + 1, !.stream = i,
                                   !.skipped = IF i = input_index THEN @ ELSE @ + 1]
             /\ Goto("SendPacket")
     \/ /\ inp' = [inp EXCEPT !.exhausted = TRUE]
        /\ Goto("SendEofDecoder")
  /\ UNCHANGED <<params, rpcLog, rpcInFlight, streams, raw_fd, dup_fd, openFds,
                 input_index, opened, released, uploader, muxBuf, muxLog,
                 dec, enc, ostream, cur>>
  /\ UNCHANGED guiVars

NextPacket ==
  /\ pc = "NextPacket"
  /\ \/ /\ inp.read < MaxPackets
        /\ \E i \in StreamIdx :
             /\ inp' = [inp EXCEPT !.read = @ + 1, !.stream = i,
                                   !.skipped = IF i = input_index THEN @ ELSE @ + 1]
             /\ Goto(IF i = input_index THEN "SendPacket" ELSE "NextPacket")
     \/ /\ inp' = [inp EXCEPT !.exhausted = TRUE]
        /\ Goto("SendEofDecoder")
  /\ UNCHANGED <<params, rpcLog, rpcInFlight, streams, raw_fd, dup_fd, openFds,
                 input_index, opened, released, uploader, muxBuf, muxLog,
                 dec, enc, ostream, cur>>
  /\ UNCHANGED guiVars

\* decoder.send_packet(&packet)
SendPacket ==
  /\ pc = "SendPacket"
  /\ \/ /\ dec' = [dec EXCEPT !.sent = @ + 1]
        /\ Goto("ReceiveFrame")
        /\ UNCHANGED <<params, rpcLog, rpcInFlight, streams, raw_fd, dup_fd, openFds,
                       input_index, opened, released, uploader, muxBuf, muxLog,
                       enc, inp, ostream, cur>>
     \/ Fail("SendPacket")
  /\ UNCHANGED guiVars

\* Errors that end a drain loop: Error::Other { errno }, whatever the errno
\* (EAGAIN is 'no output ready yet', ENOMEM stands for the others), and
\* Error::Eof. cur.ender keeps the one that ended the latest loop.
LoopEnders == {"EAGAIN", "ENOMEM", "EOF"}

\* The frame loop asking again after an error instead of leaving.
ReceiveFrame_NoBreak ==
  /\ pc = "ReceiveFrame"
  /\ \/ /\ dec.out < dec.sent
        /\ dec' = [dec EXCEPT !.out = @ + 1]
        /\ cur' = [cur EXCEPT !.frame = dec.out + 1]
        /\ Goto("SendFrame")
        /\ UNCHANGED <<params, rpcLog, rpcInFlight, streams, raw_fd, dup_fd, openFds,
                       input_index, opened, released, uploader, muxBuf, muxLog,
                       enc, inp, ostream>>
     \/ /\ \E e \in LoopEnders :
             /\ e = "EOF" => dec.eof
             /\ cur' = [cur EXCEPT !.ender = e]
        /\ Goto("ReceiveFrame")
        /\ UNCHANGED <<params, rpcLog, rpcInFlight, streams, raw_fd, dup_fd, openFds,
                       input_index, opened, released, uploader, muxBuf, muxLog,
                       dec, enc, inp, ostream>>
     \/ Fail("ReceiveFrame")
  /\ UNCHANGED guiVars

\* match decoder.receive_frame()
ReceiveFrame ==
  /\ pc = "ReceiveFrame"
  /\ \/ /\ dec.out < dec.sent                       \* Ok(frame)
        /\ dec' = [dec EXCEPT !.out = @ + 1]
        /\ cur' = [cur EXCEPT !.frame = dec.out + 1]
        /\ Goto("SendFrame")
        /\ UNCHANGED <<params, rpcLog, rpcInFlight, streams, raw_fd, dup_fd, openFds,
                       input_index, opened, released, uploader, muxBuf, muxLog,
                       enc, inp, ostream>>
     \/ /\ \E e \in LoopEnders :                  \* Err(Other) | Err(Eof) => break
             /\ e = "EOF" => dec.eof
             /\ cur' = [cur EXCEPT !.ender = e]
        /\ Goto("NextPacket")
        /\ UNCHANGED <<params, rpcLog, rpcInFlight, streams, raw_fd, dup_fd, openFds,
                       input_index, opened, released, uploader, muxBuf, muxLog,
                       dec, enc, inp, ostream>>
     \/ Fail("ReceiveFrame")                         \* Err(e) => return Err
  /\ UNCHANGED guiVars

\* ostream.codec().encoder().video()?  then  encoder.send_frame(&frame)?
SendFrame ==
  /\ pc = "SendFrame"
  /\ \/ /\ enc' = [enc EXCEPT !.q = Append(@, cur.frame), !.got = @ + 1]
        /\ cur' = [cur EXCEPT !.frame = 0]
        /\ Goto("ReceivePacket")
        /\ UNCHANGED <<params, rpcLog, rpcInFlight, streams, raw_fd, dup_fd, openFds,
                       input_index, opened, released, uploader, muxBuf, muxLog,
                       dec, inp, ostream>>
     \/ Fail("GetEncoder")
     \/ Fail("SendFrame")
  /\ UNCHANGED guiVars

\* match encoder.receive_packet(): Ok(encoded) goes through the loop's packet
\* steps and octx.write_packet(&encoded)
PacketLoop(at, after, stage, final) ==
  /\ \/ /\ enc.q # <<>>                             \* Ok(encoded)
        /\ LET got == EncodedPacket(Head(enc.q))
               pkt == IF final THEN FinalPacket(got) ELSE SteadyPacket(got)
           IN  MuxWrite(pkt)
        /\ enc' = [enc EXCEPT !.q = Tail(@)]
        /\ Goto(at)
        /\ UNCHANGED <<params, rpcLog, rpcInFlight, streams, raw_fd, dup_fd, openFds,
                       input_index, opened, released, dec, inp, ostream, cur>>
     \/ /\ enc.q # <<>>
        /\ Fail("WritePacket")
     \/ /\ \E e \in LoopEnders :                  \* Err(Other) | Err(Eof) => break
             /\ e = "EOF" => enc.eof
             /\ cur' = [cur EXCEPT !.ender = e]
        /\ Goto(after)
        /\ UNCHANGED <<params, rpcLog, rpcInFlight, streams, raw_fd, dup_fd, openFds,
                       input_index, opened, released, uploader, muxBuf, muxLog,
                       dec, enc, inp, ostream>>
     \/ Fail(stage)                                  \* Err(e) => return Err
  /\ UNCHANGED guiVars

ReceivePacket ==
  /\ pc = "ReceivePacket"
  /\ PacketLoop("ReceivePacket", "ReceiveFrame", "ReceivePacket", FALSE)

\* -------------------------------------------------------------- draining
\* decoder.send_eof()
SendEofDecoder ==
  /\ pc = "SendEofDecoder"
  /\ \/ /\ dec' = [dec EXCEPT !.eof = TRUE]
        /\ Goto("SendEofEncoder")
        /\ UNCHANGED <<params, rpcLog, rpcInFlight, streams, raw_fd, dup_fd, openFds,
                       input_index, opened, released, uploader, muxBuf, muxLog,
                       enc, inp, ostream, cur>>
     \/ Fail("SendEofDecoder")
  /\ UNCHANGED guiVars

\* ostream.codec().encoder().video()?  then  encoder.send_eof()?
SendEofEncoder ==
  /\ pc = "SendEofEncoder"
  /\ \/ /\ enc' = [enc EXCEPT !.eof = TRUE]
        /\ Goto("ReceiveFinalPacket")
        /\ UNCHANGED <<params, rpcLog, rpcInFlight, streams, raw_fd, dup_fd, openFds,
                       input_index, opened, released, uploader, muxBuf, muxLog,
                       dec, inp, ostream, cur>>
     \/ Fail("GetEncoder")
     \/ Fail("SendEofEncoder")
  /\ UNCHANGED guiVars

ReceiveFinalPacket ==
  /\ pc = "ReceiveFinalPacket"
  /\ PacketLoop("ReceiveFinalPacket", "WriteTrailer", "ReceiveFinalPacket", TRUE)

\* The trailer's error dropped instead of propagated.
WriteTrailer_ErrorIgnored ==
  /\ pc = "WriteTrailer"
  /\ \/ MuxWrite([NoPkt EXCEPT !.kind = "trailer"])
     \/ UNCHANGED <<uploader, muxBuf, muxLog>>
  /\ Goto("Finalize")
  /\ UNCHANGED <<params, rpcLog, rpcInFlight, streams, raw_fd, dup_fd, openFds,
                 input_index, opened, released, dec, enc, inp, ostream, cur>>
  /\ UNCHANGED guiVars

\* octx.write_trailer()
WriteTrailer ==
  /\ pc = "WriteTrailer"
  /\ \/ /\ MuxWrite([NoPkt EXCEPT !.kind = "trailer"])
        /\ Goto("Finalize")
        /\ UNCHANGED <<params, rpcLog, rpcInFlight, streams, raw_fd, dup_fd, openFds,
                       input_index, opened, released, dec, enc, inp, ostream, cur>>
     \/ Fail("WriteTrailer")
  /\ UNCHANGED guiVars

\* uploader.lock().unwrap().finalize_upload()?;  Ok(())
FinalizeUpload ==
  /\ pc = "Finalize"
  /\ \/ Return("Ok", "", SinkFinalize(uploader, TRUE))
     \/ Return("Err", "Finalize", SinkFinalize(uploader, FALSE))
  /\ UNCHANGED <<params, rpcLog, streams, raw_fd, dup_fd, input_index, opened,
                 muxLog, dec, enc, inp, ostream, cur>>
  /\ UNCHANGED guiVars

\* ------------------------------------------------------ one run: Spec
RecordParamsSet ==
  [output_folder : Buckets, filename_template : Templates, container : Containers,
   bitrate : Bitrates, encoding_mode : Modes, audio_device : AudioDevs]

PipeInit(p, at) ==
  /\ params = p
  /\ pc = at
  /\ result = "none"
  /\ failedAt = ""
  /\ rpcLog = <<>>
  /\ rpcInFlight = {}
  /\ streams = <<>>
  /\ raw_fd = -1
  /\ dup_fd = -1
  /\ openFds = {}
  /\ input_index = -1
  /\ opened = <<>>
  /\ released = <<>>
  /\ uploader = NoSink
  /\ muxBuf = FALSE
  /\ muxLog = <<>>
  /\ dec = [time_base |-> <<0, 1>>, sent |-> 0, out |-> 0, eof |-> FALSE]
  /\ enc = [time_base |-> <<0, 1>>, bit_rate |-> <<0, 0, 0, 0>>, q |-> <<>>, got |-> 0,
            eof |-> FALSE]
  /\ inp = [read |-> 0, stream |-> -1, skipped |-> 0, exhausted |-> FALSE]
  /\ ostream = [index |-> 0, time_base |-> <<0, 1>>]
  /\ cur = [frame |-> 0, ender |-> ""]

\* The widgets as run_gui builds them.
FormInit == [folder |-> "", filename |-> "", container |-> "mp4", bitrate |-> 1000,
             cbr |-> TRUE, audio |-> "default"]

Init ==
  /\ \E p \in RecordParamsSet : PipeInit(p, "PipewireInit")
  /\ form = FormInit
  /\ threads = <<>>

Next ==
  \/ PipewireInit \/ Connect
  \/ CreateSessionCall \/ CreateSessionReply
  \/ SelectSourcesCall \/ SelectSourcesReply
  \/ StartCall \/ StartReply
  \/ SelectStream \/ DupFd
  \/ FfmpegInit \/ OpenInput \/ BestStream \/ OpenDecoder
  \/ NewUploader \/ IoFromWrite \/ OutputWithIo
  \/ FindEncoder \/ AddStream \/ ConfigureEncoder \/ OpenEncoder
  \/ WriteHeader
  \/ NextPacket \/ SendPacket \/ ReceiveFrame \/ SendFrame \/ ReceivePacket
  \/ SendEofDecoder \/ SendEofEncoder \/ ReceiveFinalPacket
  \/ WriteTrailer \/ FinalizeUpload

Spec == Init /\ [][Next]_vars

\* The run keeps going: the runtime that block_on started polls the future
\* until it returns, every call into the portal is answered, every call into
\* the codec library returns.
SpecFair == Spec /\ WF_vars(Next)

\* ------------------------------------------- the form and main: SpecGui
\* The user changes the container, bitrate, mode and audio widgets; the two
\* text entries stay as run_gui builds them (empty), which the handler accepts.
\* A worker's run of start_recording is one step from "running" to "returned";
\* Spec has its statements.
SpinValues   == {1000, 2000}             \* values set on the bitrate spin button
AudioChoices == {"default", "Device 1"}  \* entries picked in the audio combo

\* bitrate_spin.get_value_as_int() as u32: the cast keeps a non-negative
\* i32 as it is and adds 2^32 to a negative one. The spin button's range is
\* 100..10000.
AsU32(v) ==
  IF v >= 0
    THEN U32(v \div LimbBase, v % LimbBase)
    ELSE LET m == v + 2147483647 + 1
         IN  U32((m \div LimbBase) + 32768, m % LimbBase)

\* The handler of start_button: the widgets read into a RecordParams.
GatherParams(f) ==
  [output_folder     |-> f.folder,
   filename_template |-> f.filename,
   container         |-> f.container,
   bitrate           |-> AsU32(f.bitrate),
   encoding_mode     |-> IF f.cbr THEN "CBR" ELSE "VBR",
   audio_device      |-> f.audio]

ChooseContainer ==
  /\ \E c \in Containers : c # form.container /\ form' = [form EXCEPT !.container = c]
  /\ UNCHANGED <<threads, pipeVars>>

SetBitrate ==
  /\ \E v \in SpinValues : v # form.bitrate /\ form' = [form EXCEPT !.bitrate = v]
  /\ UNCHANGED <<threads, pipeVars>>

ToggleMode ==
  /\ form' = [form EXCEPT !.cbr = ~@]
  /\ UNCHANGED <<threads, pipeVars>>

ChooseAudio ==
  /\ \E a \in AudioChoices : a # form.audio /\ form' = [form EXCEPT !.audio = a]
  /\ UNCHANGED <<threads, pipeVars>>

\* What main's callback does with the params: thread::spawn, unconditionally.
Spawn(ts, p) == Append(ts, [params |-> p, st |-> "spawned"])

\* start_button.connect_clicked: gather the params, call the callback.
StartClicked ==
  /\ Len(threads) < MaxPresses
  /\ threads' = Spawn(threads, GatherParams(form))
  /\ UNCHANGED <<form, pipeVars>>

\* The worker enters rt.block_on(start_recording(params)) ...
WorkerBegin ==
  /\ \E i \in 1..Len(threads) :
       /\ threads[i].st = "spawned"
       /\ threads' = [threads EXCEPT ![i].st = "running"]
  /\ UNCHANGED <<form, pipeVars>>

\* ... and start_recording returns (Ok or Err, which the worker only prints).
WorkerReturn ==
  /\ \E i \in 1..Len(threads) :
       /\ threads[i].st = "running"
       /\ threads' = [threads EXCEPT ![i].st = "returned"]
  /\ UNCHANGED <<form, pipeVars>>

InitGui ==
  /\ PipeInit(GatherParams(FormInit), "idle")
  /\ form = FormInit
  /\ threads = <<>>

NextGui ==
  \/ ChooseContainer \/ SetBitrate \/ ToggleMode \/ ChooseAudio
  \/ StartClicked \/ WorkerBegin \/ WorkerReturn

SpecGui == InitGui /\ [][NextGui]_vars

\* ================================================================ claims
Done == pc = "done"

Last(q) == q[Len(q)]

Handshake == <<"CreateSession", "SelectSources", "Start">>

PipelineStages == {"WriteHeader", "SendPacket", "ReceiveFrame", "GetEncoder",
                   "SendFrame", "ReceivePacket", "WritePacket", "SendEofDecoder",
                   "SendEofEncoder", "ReceiveFinalPacket", "WriteTrailer"}

TrailerWritten == \E i \in 1..Len(muxLog) : muxLog[i].kind = "trailer"

\* C1 (as stated): a finished run either returned Ok with the sink for
\* '<filename_template>.<container>' in bucket <output_folder> finalized exactly
\* once, or returned an error with finalize called zero times.
C1_Original ==
  Done =>
    \/ /\ result = "Ok"
       /\ uploader.bucket = params.output_folder
       /\ uploader.object = params.filename_template \o "." \o params.container
       /\ uploader.finalizeCalls = 1
       /\ uploader.finalized
    \/ /\ result = "Err"
       /\ uploader.finalizeCalls = 0

\* C1 (amended): a finished run either returned Ok with the sink for
\* '<filename_template>.<container>' in bucket <output_folder> finalized exactly
\* once, or returned an error and no finalize has succeeded: finalize_upload was
\* not called, or it was called once, as the last step, and failed.
C1_AtomicOutcome ==
  Done =>
    \/ /\ result = "Ok"
       /\ uploader.constructed
       /\ uploader.bucket = params.output_folder
       /\ uploader.object = params.filename_template \o "." \o params.container
       /\ uploader.finalizeCalls = 1
       /\ uploader.finalized
    \/ /\ result = "Err"
       /\ ~uploader.finalized
       /\ \/ uploader.finalizeCalls = 0
          \/ uploader.finalizeCalls = 1 /\ failedAt = "Finalize"

C1_Witness ==
  /\ Done /\ result = "Ok"
  /\ uploader.finalizeCalls = 1
  /\ uploader.object = "demo.mkv"

\* C2: when Start succeeded with an empty streams list, the run ends in the
\* no-stream error, and no descriptor is duplicated, no context is opened, the
\* sink is never constructed and nothing is written or finalized.
StartReturnedEmpty ==
  /\ Len(rpcLog) = 3
  /\ pc \notin {"StartAwait"}
  /\ failedAt # "Start"
  /\ streams = <<>>

C2_NoStreamFailsFast ==
  StartReturnedEmpty =>
    /\ pc \in {"SelectStream", "done"}
    /\ Done => (result = "Err" /\ failedAt = "NoStream")
    /\ raw_fd = -1 /\ dup_fd = -1 /\ openFds = {}
    /\ opened = <<>> /\ released = <<>>
    /\ uploader = NoSink
    /\ muxLog = <<>>

C2_Witness == StartReturnedEmpty /\ Done /\ failedAt = "NoStream"

\* C3: once end-of-stream has been signalled to the encoder, every frame the
\* decoder accepted has been received from it and fed to the encoder; a run that
\* returns Ok has passed all N decodable frames to the encoder.
C3_NoFrameLost ==
  /\ enc.eof => (dec.out = dec.sent /\ enc.got = dec.sent)
  /\ (Done /\ result = "Ok") => enc.got = dec.sent

\* C4: when the run has ended, the duplicated descriptor is closed.
C4_DupClosed == Done => dup_fd \notin openFds

\* C5: when the run has ended, every context that was opened has been released
\* exactly once, in reverse order of acquisition, and nothing else has been
\* released; nothing is released while the run is still going.
C5_ReleaseOnce ==
  /\ \A i, j \in 1..Len(opened) : opened[i] = opened[j] => i = j
  /\ ~Done => released = <<>>
  /\ Done =>
       /\ Len(released) = Len(opened)
       /\ \A i \in 1..Len(opened) : released[Len(opened) + 1 - i] = opened[i]

C5_Witness ==
  /\ Done /\ result = "Err" /\ failedAt = "ReceiveFinalPacket"
  /\ released = <<"encoder", "octx", "decoder", "ictx">>

C7_NoWriteAfterFinalize == uploader.lateWrites = 0

\* C8: at most one run of start_recording is in progress at any time.
Running == {i \in 1..Len(threads) : threads[i].st = "running"}

C8_SingleAttempt == Cardinality(Running) <= 1

\* C9: CreateSession, SelectSources and Start are called at most once each, in
\* that order; only the latest call can be awaiting its reply, so each call
\* follows the previous one's successful return; when one of them fails, it is
\* the last call made and no descriptor is obtained.
C9_SequentialHandshake ==
  /\ Len(rpcLog) <= 3
  /\ \A i \in 1..Len(rpcLog) : rpcLog[i] = Handshake[i]
  /\ Cardinality(rpcInFlight) <= 1
  /\ rpcInFlight # {} => rpcInFlight = {Last(rpcLog)}
  /\ \A i \in 1..3 :
       failedAt = Handshake[i] =>
         /\ Len(rpcLog) = i
         /\ raw_fd = -1 /\ dup_fd = -1 /\ openFds = {}

C9_Witness == rpcLog = Handshake /\ rpcInFlight = {"Start"}

\* C10: every encoded packet written to the muxer, in Streaming or in Draining,
\* was rescaled to the output stream's time base before the write.
C10_AllRescaled ==
  \A i \in 1..Len(muxLog) :
    muxLog[i].kind = "packet" =>
      (muxLog[i].rescaled /\ muxLog[i].tb = ostream.time_base)

\* C11: a drain loop of the decoder or the encoder ends without failure only
\* on 'no output ready yet' (EAGAIN) or 'end of stream'; no other error of
\* receive_frame / receive_packet ends a loop as if it were normal.
C11_OnlyAgainOrEofEndLoop == cur.ender \in {"", "EAGAIN", "EOF"}

\* C12: the timestamps of the packets written to the muxer never decrease
\* over Streaming and Draining together, whatever the decoder's and the
\* output stream's time bases are.
C12_TimestampsNonDecreasing ==
  \A i, j \in 1..Len(muxLog) :
    (i < j /\ muxLog[i].kind = "packet" /\ muxLog[j].kind = "packet")
      => muxLog[i].ts <= muxLog[j].ts

\* A step of the run has failed: start_recording returned its error, or a
\* drain loop ended on an error other than 'no output ready yet' and
\* 'end of stream'.
StepFailed == failedAt # "" \/ cur.ender \notin {"", "EAGAIN", "EOF"}

\* C13: fail-stop. Once a step has failed, no step of the run performs a
\* portal RPC, a decoder or encoder call, a muxer write or a sink finalize,
\* and no portal method is called twice.
C13_FailStop ==
  [][/\ StepFailed =>
          /\ rpcLog' = rpcLog
          /\ dec' = dec
          /\ enc' = enc
          /\ muxLog' = muxLog
          /\ uploader'.finalizeCalls = uploader.finalizeCalls
      /\ \A i, j \in 1..Len(rpcLog') : rpcLog'[i] = rpcLog'[j] => i = j]_vars

\* The statements of start_recording up to and including libc::dup.
BeforePipeline == {"PipewireInit", "Connect", "CreateSession", "CreateSessionAwait",
                   "SelectSources", "SelectSourcesAwait", "Start", "StartAwait",
                   "SelectStream", "Dup"}

\* C14: the input context and everything after it (contexts, sink, muxer
\* writes) exist only once dup has returned a descriptor >= 0; a run whose dup
\* failed has returned an error at that point with no context opened, no sink
\* constructed and no sink call made.
C14_PipelineAfterDup ==
  /\ (pc \notin BeforePipeline \cup {"done", "idle"}) => dup_fd >= 0
  /\ (opened # <<>> \/ uploader # NoSink \/ muxLog # <<>>) => dup_fd >= 0
  /\ (Done /\ raw_fd # -1 /\ dup_fd < 0) =>
        /\ result = "Err" /\ failedAt = "Dup"
        /\ opened = <<>> /\ released = <<>>
        /\ uploader = NoSink /\ muxLog = <<>>

C14_Witness == Done /\ raw_fd # -1 /\ dup_fd < 0 /\ failedAt = "Dup"

\* The pipeline state a position of start_recording belongs to: 1 Opening,
\* 2 StreamSelected, 3 EncoderConfigured, 4 HeaderWritten, 5 Streaming,
\* 6 Draining, 7 TrailerWritten, 8 Closed or Failed; 0 before the pipeline.
\* HeaderWritten is the point between write_header and the first poll of the
\* input; the packet loop, its polls of the input included, is Streaming.
PipelineState(at, polled) ==
  CASE at \in {"FfmpegInit", "OpenInput", "BestStream"} -> 1
    [] at \in {"OpenDecoder", "NewUploader", "IoFromWrite", "OutputWithIo",
               "FindEncoder", "AddStream", "ConfigureEncoder", "OpenEncoder"} -> 2
    [] at = "WriteHeader" -> 3
    [] at = "NextPacket" -> IF polled THEN 5 ELSE 4
    [] at \in {"SendPacket", "ReceiveFrame", "SendFrame", "ReceivePacket"} -> 5
    [] at \in {"SendEofDecoder", "SendEofEncoder", "ReceiveFinalPacket",
               "WriteTrailer"} -> 6
    [] at = "Finalize" -> 7
    [] at = "done" -> 8
    [] OTHER -> 0

\* The muxer's log is a header, then packets of Streaming, then packets of
\* Draining, then at most one trailer, which is the last entry.
C15_MuxOrder ==
  /\ muxLog # <<>> => muxLog[1].kind = "header"
  /\ \A i \in 2..Len(muxLog) :
       /\ muxLog[i].kind \in {"packet", "trailer"}
       /\ muxLog[i].kind = "trailer" => i = Len(muxLog)
       /\ (muxLog[i].kind = "packet" /\ muxLog[i].phase = "Streaming") =>
             \A j \in 2..i : muxLog[j].phase = "Streaming"
  /\ muxLog # <<>> <=> PipelineState(pc, inp.read > 0) \in 4..7 \/ (Done /\ muxLog # <<>>)

\* One step keeps the pipeline state, moves it to the next one, or ends the
\* run; the poll that finds an input without packets passes through Streaming
\* to Draining. A write to the muxer happens in the state it belongs to.
C15_StepOrder ==
  LET before == PipelineState(pc, inp.read > 0)
      after  == PipelineState(pc', inp'.read > 0)
  IN  /\ \/ after \in {before, before + 1, 8}
         \/ before = 4 /\ after = 6 /\ inp'.exhausted /\ inp'.read = 0
      /\ muxLog' # muxLog =>
           /\ Len(muxLog') = Len(muxLog) + 1
           /\ Last(muxLog').kind = "header"  => before = 3 /\ after = 4
           /\ Last(muxLog').kind = "packet"  => before \in {5, 6} /\ after = before
           /\ Last(muxLog').kind = "trailer" => before = 6 /\ after = 7
      /\ (before = 3 /\ after = 4) => muxLog' # muxLog
      /\ (before = 6 /\ after = 7) => muxLog' # muxLog

\* C15: the pipeline passes through Opening, StreamSelected,
\* EncoderConfigured, HeaderWritten, Streaming, Draining, TrailerWritten in that
\* order, never back and never past a state; no packet reaches the muxer
\* before the header was written successfully, none after the trailer.
C15_StateOrder == [](C15_MuxOrder) /\ [][C15_StepOrder]_vars

C15_Witness ==
  /\ pc = "Finalize"
  /\ Len(muxLog) = 4
  /\ muxLog[2].phase = "Streaming" /\ muxLog[3].phase = "Draining"

\* The statements of the packet loop that call the decoder, the encoder or
\* the muxer.
LoopBody == {"SendPacket", "ReceiveFrame", "SendFrame", "ReceivePacket"}

\* C16: in the packet loop the decoder, the encoder and the muxer are called
\* only for a packet whose stream index is input_index, and every such packet
\* is sent to the decoder: the packets sent are exactly the packets read from
\* the selected stream, frames and encoded packets come only from them.
C16_OnlySelectedStreamDecoded ==
  /\ pc \in LoopBody => inp.stream = input_index
  /\ dec.sent <= inp.read - inp.skipped
  /\ ~Done => dec.sent + (IF pc = "SendPacket" THEN 1 ELSE 0) = inp.read - inp.skipped
  /\ dec.out <= dec.sent
  /\ enc.got <= dec.out
  /\ Cardinality({i \in 1..Len(muxLog) : muxLog[i].kind = "packet"}) <= enc.got

\* a packet of the selected stream went through to the muxer and
\* the next packet, of another stream, was read and left alone.
C16_Witness ==
  /\ pc = "NextPacket"
  /\ inp.read = 2 /\ inp.skipped = 1 /\ inp.stream # input_index
  /\ dec.sent = 1 /\ enc.got = 1 /\ Len(muxLog) = 2

\* C17: whatever the length of the list Start returned, the descriptor that
\* is duplicated and handed to the pipeline is that of its first entry, and
\* no other entry's descriptor is; one descriptor at most is duplicated.
C17_OnlyFirstStream ==
  /\ raw_fd # -1 =>
        /\ Len(streams) >= 1
        /\ raw_fd = streams[1].fd
        /\ \A i \in 2..Len(streams) : raw_fd # streams[i].fd
  /\ (dup_fd >= 0 \/ opened # <<>>) => (raw_fd # -1 /\ raw_fd = PortalFd(1))
  /\ Cardinality(openFds) <= 1

C17_Witness ==
  /\ Len(streams) = 2
  /\ dup_fd >= 0
  /\ opened # <<>>
  /\ inp.read > 0

\* Long division of an i64 (limbs) by a small d: <<quotient limbs, remainder>>.
DivI64(x, d) ==
  LET c1 == x[1]
      c2 == (c1 % d) * LimbBase + x[2]
      c3 == (c2 % d) * LimbBase + x[3]
      c4 == (c3 % d) * LimbBase + x[4]
  IN  <<(<<c1 \div d, c2 \div d, c3 \div d, c4 \div d>>), c4 % d>>

\* The encoder was configured at or before this position.
EncoderConfigured ==
  pc = "OpenEncoder" \/ PipelineState(pc, FALSE) \in 3..7

\* C18: the encoder's bit rate is the requested kbps times 1000 exactly: it is
\* a non-negative i64 that divides by 1000 with no remainder and gives back
\* the requested u32, for 2000 kbps (2,000,000 bits/second) as for u32::MAX.
C18_BitRateExact ==
  (EncoderConfigured \/ enc.bit_rate # <<0, 0, 0, 0>>) =>
    /\ enc.bit_rate[1] < 32768
    /\ DivI64(enc.bit_rate, 1000) = <<AsI64(params.bitrate), 0>>
    /\ params.bitrate = U32(0, 2000) => enc.bit_rate = <<0, 0, 30, 33920>>

C18_Witness ==
  /\ EncoderConfigured
  /\ params.bitrate = U32(65535, 65535)
  /\ enc.bit_rate = <<0, 999, 65535, 64536>>

\* C19: every run of start_recording ends, with Ok or with an error: with an
\* input of finitely many packets and a codec that gives out no more than it
\* was fed, neither the frame loop, nor the packet loops, nor the
\* end-of-stream loop goes on forever.
C19_Terminates == <>Done

C19_Witness ==
  /\ Done /\ result = "Ok"
  /\ inp.read = 2 /\ inp.skipped = 0
  /\ dec.out = 2 /\ Len(muxLog) = 4

====
